---- MODULE Spec2Model ----
(***************************************************************************)
(* Model of enrollment_formatter_app.py: the upload handler that locates   *)
(* the header row of an Enrollment.xlsx export, normalizes the column      *)
(* labels, consolidates duplicate participant rows, collapses the          *)
(* immunization / TB / lead columns, merges the two Special Care Needs     *)
(* columns and classifies every data cell against the cutoffs.             *)
(*                                                                         *)
(* Cell values are tagged records:                                         *)
(*   [t |-> "none"]            None / NaN / empty cell                     *)
(*   [t |-> "dt",  d |-> n]    a datetime, n = days since 1899-12-30       *)
(*   [t |-> "num", n |-> n]    an int cell (a spreadsheet serial)          *)
(*   [t |-> "str", s |-> "x"]  a text cell                                 *)
(* Times of day are not modelled: every datetime is midnight of its day.   *)
(***************************************************************************)
EXTENDS Integers, Sequences, FiniteSets, TLC

VARIABLES
  pc,            \* position of the script: which block runs next
  sheet,         \* the uploaded workbook: banner rows, header row, data rows
  header_row,    \* line 180: 1-based header row, 0 for None
  err,           \* text handed to st.error, "" when none
  columns,       \* df.columns
  df,            \* the rows of df, each aligned with columns
  headers,       \* line 257/296: stripped header cells of the output sheet
  ws_head,       \* row 4 of the output sheet: the header cells
  ws,            \* data rows of the output sheet, cells [v, red]
  immun_idx, tb_idx, lead_idx, scn_comb_idx,   \* lines 270-276, 0 for None
  base_max_col,  \* line 230
  final_output,  \* rows saved to Formatted_Enrollment_Checklist.xlsx
  label,         \* a header label under the prefix removal of line 193
  orig,          \* that label as it was read
  prev,          \* that label before the latest removal
  passes         \* how many times the removal has been applied to label

vars == <<pc, sheet, header_row, err, columns, df, headers, ws_head, ws, immun_idx,
          tb_idx, lead_idx, scn_comb_idx, base_max_col, final_output,
          label, orig, prev, passes>>

pipeVars == <<pc, sheet, header_row, err, columns, df, headers, ws_head, ws, immun_idx,
              tb_idx, lead_idx, scn_comb_idx, base_max_col, final_output>>

-----------------------------------------------------------------------------
(* Values *)

None == [t |-> "none"]
Dt(d) == [t |-> "dt", d |-> d]
Num(n) == [t |-> "num", n |-> n]
Str(s) == [t |-> "str", s |-> s]

\* pd.isna / pd.notna on a scalar
isna(v) == v.t = "none"

-----------------------------------------------------------------------------
(* Python str operations, on TLA+ strings *)

CharAt(s, i) == SubSeq(s, i, i)

\* sub in s
Contains(s, sub) ==
  \E i \in 1..(Len(s) - Len(sub) + 1) : SubSeq(s, i, i + Len(sub) - 1) = sub

StartsWith(s, p) == Len(s) >= Len(p) /\ SubSeq(s, 1, Len(p)) = p

RECURSIVE LStrip(_)
LStrip(s) == IF Len(s) > 0 /\ CharAt(s, 1) = " " THEN LStrip(Tail(s)) ELSE s

RECURSIVE RStrip(_)
RStrip(s) ==
  IF Len(s) > 0 /\ CharAt(s, Len(s)) = " "
  THEN RStrip(SubSeq(s, 1, Len(s) - 1)) ELSE s

\* s.strip(), for text whose only whitespace is the space character
Strip(s) == RStrip(LStrip(s))

UpperChars == "ABCDEFGHIJKLMNOPQRSTUVWXYZ"
LowerChars == "abcdefghijklmnopqrstuvwxyz"

\* str.lower of one character, as a table over the capital letters
LowerMap ==
  [c \in {CharAt(UpperChars, i) : i \in 1..26} |->
     CharAt(LowerChars, CHOOSE i \in 1..26 : CharAt(UpperChars, i) = c)]

LowerChar(c) == IF c \in DOMAIN LowerMap THEN LowerMap[c] ELSE c

RECURSIVE Lower(_)
\* s.lower()
Lower(s) == IF s = "" THEN "" ELSE LowerChar(CharAt(s, 1)) \o Lower(Tail(s))

\* s.replace(old, "") with a non-empty old: every non-overlapping occurrence,
\* found left to right, is removed
RECURSIVE Replace(_, _)
Replace(s, old) ==
  IF Len(s) < Len(old) THEN s
  ELSE IF SubSeq(s, 1, Len(old)) = old
       THEN Replace(SubSeq(s, Len(old) + 1, Len(s)), old)
       ELSE CharAt(s, 1) \o Replace(Tail(s), old)

RECURSIVE Find(_, _, _)
\* s.find(c, i - 1) + 1 for a character c: its first position from i on, 0
\* when there is none
Find(s, c, i) ==
  IF i > Len(s) THEN 0 ELSE IF CharAt(s, i) = c THEN i ELSE Find(s, c, i + 1)

\* s.split(sep) for a one-character sep
RECURSIVE Split(_, _)
Split(s, sep) ==
  LET i == Find(s, sep, 1)
  IN IF i = 0 THEN <<s>>
     ELSE <<SubSeq(s, 1, i - 1)>> \o Split(SubSeq(s, i + 1, Len(s)), sep)

DigitChars == "0123456789"

\* int() of one digit character, as a table
DigitMap ==
  [c \in {CharAt(DigitChars, i) : i \in 1..10} |->
     (CHOOSE i \in 1..10 : CharAt(DigitChars, i) = c) - 1]

IsDigit(c) == c \in DOMAIN DigitMap

DigitVal(c) == DigitMap[c]

AllDigits(s) == Len(s) > 0 /\ \A i \in 1..Len(s) : IsDigit(CharAt(s, i))

RECURSIVE ParseInt(_)
ParseInt(s) ==
  IF s = "" THEN 0
  ELSE 10 * ParseInt(SubSeq(s, 1, Len(s) - 1)) + DigitVal(CharAt(s, Len(s)))

-----------------------------------------------------------------------------
(* Dates: datetime(y, m, d) as days since 1899-12-30, the epoch of          *)
(* openpyxl's from_excel                                                    *)

IsLeap(y) == (y % 4 = 0 /\ y % 100 # 0) \/ y % 400 = 0

DaysInMonth(y, m) ==
  IF m = 2 THEN (IF IsLeap(y) THEN 29 ELSE 28)
  ELSE IF m \in {4, 6, 9, 11} THEN 30 ELSE 31

datetime(y, m, d) ==
  LET yy  == IF m <= 2 THEN y - 1 ELSE y
      era == yy \div 400
      yoe == yy - era * 400
      mp  == (m + 9) % 12
      doy == (153 * mp + 2) \div 5 + d - 1
      doe == yoe * 365 + yoe \div 4 - yoe \div 100 + doy
  IN era * 146097 + doe - 719468 + 25569

\* openpyxl.utils.datetime.from_excel on a whole serial >= 1: the epoch plus
\* that many days, one more below 60 (the serial of the 1900-02-29 that never
\* was)
from_excel(n) == IF n < 60 THEN n + 1 ELSE n

\* datetime.strptime(s, fmt) for the three formats of line 42; sep is the
\* separator, mi, di and yi say which field is the month, the day and the
\* year. None when s does not match.
strptime(s, sep, mi, di, yi) ==
  LET f == Split(s, sep)
  IN IF /\ Len(f) = 3
        /\ \A i \in 1..3 : AllDigits(f[i])
        /\ Len(f[mi]) <= 2 /\ Len(f[di]) <= 2 /\ Len(f[yi]) = 4
     THEN LET m == ParseInt(f[mi])
              d == ParseInt(f[di])
              y == ParseInt(f[yi])
          IN IF m \in 1..12 /\ y >= 1 /\ d >= 1 /\ d <= DaysInMonth(y, m)
             THEN Dt(datetime(y, m, d)) ELSE None
     ELSE None

\* lines 38-47: the text branch
CoerceText(s) ==
  IF s = "" THEN None
  ELSE LET a == strptime(s, "/", 1, 2, 3)
       IN IF a # None THEN a
          ELSE LET b == strptime(s, "-", 1, 2, 3)
               IN IF b # None THEN b ELSE strptime(s, "-", 2, 3, 1)

coerce_to_dt(v) ==
  IF isna(v) THEN None
  ELSE IF v.t = "dt" THEN v
  ELSE IF v.t = "num" THEN Dt(from_excel(v.n))
  ELSE CoerceText(Strip(v.s))

\* the truth value of coerce_to_dt's result: `if dt:`
IsDt(r) == r.t = "dt"

general_cutoff == datetime(2025, 5, 11)
field_cutoff == datetime(2025, 8, 1)

-----------------------------------------------------------------------------
(* Sequences *)

Range(q) == {q[i] : i \in 1..Len(q)}

\* q.index(x) + 1 for the first occurrence, 0 when x is not in q
RECURSIVE IndexFrom(_, _, _)
IndexFrom(q, x, i) ==
  IF i > Len(q) THEN 0 ELSE IF q[i] = x THEN i ELSE IndexFrom(q, x, i + 1)

IndexOf(q, x) == IndexFrom(q, x, 1)

\* q without its i-th element
RemoveAt(q, i) == SubSeq(q, 1, i - 1) \o SubSeq(q, i + 1, Len(q))

RECURSIVE Unique(_)
\* pd.unique: the distinct elements in order of first appearance
Unique(q) ==
  IF q = <<>> THEN <<>>
  ELSE LET init == Unique(SubSeq(q, 1, Len(q) - 1))
           x    == q[Len(q)]
       IN IF x \in Range(init) THEN init ELSE Append(init, x)

RECURSIVE MaxDt(_)
\* max() of a non-empty list of datetimes
MaxDt(q) ==
  IF Len(q) = 1 THEN q[1]
  ELSE LET m == MaxDt(Tail(q)) IN IF q[1].d >= m.d THEN q[1] ELSE m

-----------------------------------------------------------------------------
(* Lines 49-61 *)

\* the loop of lines 51-58 over the unique values u: the dates list
RECURSIVE DatesOf(_)
DatesOf(u) ==
  IF u = <<>> THEN <<>>
  ELSE LET dt == coerce_to_dt(Head(u))
       IN IF IsDt(dt) THEN <<dt>> \o DatesOf(Tail(u)) ELSE DatesOf(Tail(u))

\* str(v) of a value that reached line 56: within the values modelled only
\* text does (every datetime and every serial >= 1 coerces)
PyStr(v) == v.s

\* the loop of lines 51-58 over the unique values u: the texts list
RECURSIVE TextsOf(_)
TextsOf(u) ==
  IF u = <<>> THEN <<>>
  ELSE LET dt == coerce_to_dt(Head(u))
           s  == Strip(PyStr(Head(u)))
       IN IF IsDt(dt) THEN TextsOf(Tail(u))
          ELSE IF s # "" THEN <<Str(s)>> \o TextsOf(Tail(u))
          ELSE TextsOf(Tail(u))

\* most_recent were it to take the first date met instead of the latest
PickFirstDate(dates, texts) ==
  IF dates # <<>> THEN dates[1]
  ELSE IF texts # <<>> THEN texts[1] ELSE None

\* most_recent were it to take the last text met instead of the first
PickLastText(dates, texts) ==
  IF dates # <<>> THEN MaxDt(dates)
  ELSE IF texts # <<>> THEN texts[Len(texts)] ELSE None

\* what most_recent returns given its two lists (lines 59-61)
PickRecent(dates, texts) ==
  IF dates # <<>> THEN MaxDt(dates)
  ELSE IF texts # <<>> THEN texts[1] ELSE None

most_recent(series) ==
  LET u == Unique(SelectSeq(series, LAMBDA v : ~isna(v)))
  IN PickRecent(DatesOf(u), TextsOf(u))

-----------------------------------------------------------------------------
(* Lines 63-89 *)

SepChars == {" ", "-", "_", ":", "(", ")"}

RECURSIVE SquashSeps(_)
\* re.sub(r"[\s\-–—_:()]+", " ", s), for ASCII text
SquashSeps(s) ==
  IF s = "" THEN ""
  ELSE IF CharAt(s, 1) \in SepChars
       THEN IF Len(s) > 1 /\ CharAt(s, 2) \in SepChars
            THEN SquashSeps(Tail(s))
            ELSE " " \o SquashSeps(Tail(s))
       ELSE CharAt(s, 1) \o SquashSeps(Tail(s))

normalize(s) == Strip(SquashSeps(Lower(s)))

\* find_cols: the text labels whose normalized form contains a keyword
find_cols(cols, keywords) ==
  SelectSeq(cols, LAMBDA c :
    c.t = "str" /\ \E k \in keywords : Contains(normalize(c.s), k))

\* str(v).strip() != "" for a cell of the consolidated table (a datetime
\* prints as non-empty text)
NonBlank(v) == ~isna(v) /\ (v.t = "str" => Strip(v.s) # "")

\* collapse_row_values(row, col_names), row being the Series of one df row
\* indexed by cols
collapse_row_values(cols, row, col_names) ==
  LET present == SelectSeq(col_names, LAMBDA c :
                   c \in Range(cols) /\ NonBlank(row[IndexOf(cols, c)]))
      vals    == [i \in 1..Len(present) |-> row[IndexOf(cols, present[i])]]
      dts     == DatesOf(vals)
  IN IF vals = <<>> THEN None
     ELSE IF dts # <<>> THEN MaxDt(dts)
     ELSE Str(Strip(PyStr(vals[1])))

-----------------------------------------------------------------------------
(* The uploaded workbook *)

\* rows per upload whose table has at most two columns
MaxRows == 2
\* rows per upload whose table is wider
MaxWideRows == 1

PidVals == {Str("1001"), Str("1002")}
\* key cells of an export with rows whose key is missing or whitespace only
BlankPidVals == {None, Str("1001"), Str("  ")}
WidePidVals == {Str("1001")}
ExamVals == {None, Dt(datetime(2025, 5, 10)), Str("05/11/2025"),
             Str("Pending"), Str(" Approved"), Str(" ")}
DentalVals == {None, Str("5-10-2025"), Num(45800)}
ImmunVals == {None, Str("06-01-2023"), Dt(datetime(2025, 8, 1)), Str("Exempt")}
TbVals == {None, Str("2025-06-15")}
LeadVals == {None, Dt(datetime(2025, 9, 1))}
ScnEnVals == {None, Dt(datetime(2025, 3, 1)), Str("2025-09-02"), Str("Yes")}
ScnEsVals == {None, Str("2025-08-15"), Str("Si")}

\* a layout: per column, the header cell and the values its cells draw from
LayoutBasic ==
  <<[h |-> "ST: Participant PID", vals |-> PidVals],
    [h |-> "ST: Physical Exam", vals |-> ExamVals]>>
LayoutBlankPid ==
  <<[h |-> "ST: Participant PID", vals |-> BlankPidVals],
    [h |-> "ST: Physical Exam", vals |-> {None, Dt(datetime(2025, 5, 10))}]>>
\* an export whose key column holds numbers, read back as numeric cells
LayoutNumPid ==
  <<[h |-> "ST: Participant PID", vals |-> {Num(1001), Num(45800)}],
    [h |-> "ST: Physical Exam", vals |-> {None, Dt(datetime(2025, 5, 10))}]>>
LayoutSpecial ==
  <<[h |-> "ST: Participant PID", vals |-> {Str("1001"), Str("1002")}],
    [h |-> "ST: Immunization Record", vals |-> ImmunVals],
    [h |-> "ST: TB Skin Test", vals |-> TbVals],
    [h |-> "ST: Lead Screening", vals |-> LeadVals]>>
\* an export whose immunization column already bears the combined name
LayoutExactName ==
  <<[h |-> "ST: Participant PID", vals |-> WidePidVals],
    [h |-> "ST: Immunizations", vals |-> {None, Str("06-01-2023")}],
    [h |-> "ST: TB Skin Test", vals |-> {None, Str("2025-06-15")}]>>
\* an export with a header that matches two keyword sets (immun and tb)
LayoutTwoSets ==
  <<[h |-> "ST: Participant PID", vals |-> WidePidVals],
    [h |-> "ST: Immunization and TB Record", vals |-> {None, Str("06-01-2023")}],
    [h |-> "ST: Lead Screening", vals |-> {None, Dt(datetime(2025, 9, 1))}]>>
LayoutSCN ==
  <<[h |-> "ST: Participant PID", vals |-> WidePidVals],
    [h |-> "ST: Child's Special Care Needs English", vals |-> ScnEnVals],
    [h |-> "ST: Child's Special Care Needs Spanish", vals |-> ScnEsVals],
    [h |-> "ST: Immunization Record", vals |-> ImmunVals],
    [h |-> "ST: TB Skin Test", vals |-> {Str("2025-06-15")}]>>
LayoutSCNRev ==
  <<[h |-> "ST: Participant PID", vals |-> WidePidVals],
    [h |-> "ST: Child's Special Care Needs Spanish", vals |-> ScnEsVals],
    [h |-> "ST: Child's Special Care Needs English", vals |-> ScnEnVals],
    [h |-> "ST: Dental Exam", vals |-> DentalVals]>>
LayoutNoPid ==
  <<[h |-> "ST: Participant PID Number", vals |-> {Str("1001")}],
    [h |-> "ST: Physical Exam", vals |-> {None}]>>
LayoutNoMarker ==
  <<[h |-> "Participant PID", vals |-> {Str("1001")}],
    [h |-> "Physical Exam", vals |-> {None}]>>

Layouts == {LayoutBasic, LayoutBlankPid, LayoutNumPid, LayoutSpecial,
            LayoutExactName, LayoutTwoSets, LayoutSCN, LayoutSCNRev,
            LayoutNoPid, LayoutNoMarker}

RowLimit(L) == IF Len(L) <= 2 THEN MaxRows ELSE MaxWideRows

RECURSIVE RowsOf(_, _)
\* the rows of the first k columns of layout L
RowsOf(L, k) ==
  IF k = 0 THEN {<<>>}
  ELSE {Append(r, v) : r \in RowsOf(L, k - 1), v \in L[k].vals}

RECURSIVE TablesOf(_, _)
\* the tables of exactly n rows, each from the set R
TablesOf(R, n) ==
  IF n = 0 THEN {<<>>} ELSE {Append(t, r) : t \in TablesOf(R, n - 1), r \in R}

HeaderCells(L) == [i \in 1..Len(L) |-> Str(L[i].h)]

\* the n rows an export puts above its header row: a title row, blank rows,
\* and, when decoy is one of them, a caption naming the key column
BannerRows(n, decoy) ==
  [r \in 1..n |->
     IF r = 1 THEN <<Num(2025), Str("Enrollment Report")>>
     ELSE IF r = decoy THEN <<None, Str("Key column is ST: Participant PID")>>
     ELSE <<>>]

\* (banner rows, caption row) of the exports modelled: five banner rows
MainBanner == <<5, 0>>
\* ... a caption above the header row, the header row in row 30, in row 31
EdgeBanners == {<<5, 3>>, <<29, 0>>, <<30, 0>>}

\* the tables an upload of layout L may hold
TablesUpTo(L) ==
  UNION {TablesOf(RowsOf(L, Len(L)), n) : n \in 0..RowLimit(L)}

\* the workbooks of layout L: the rows of the first sheet, each a sequence of
\* cell values. Under the edge banners the table has one row at most.
UploadsOf(L) ==
  {BannerRows(MainBanner[1], MainBanner[2]) \o <<HeaderCells(L)>> \o t :
     t \in TablesUpTo(L)}
  \cup
  {BannerRows(b[1], b[2]) \o <<HeaderCells(L)>> \o t :
     b \in EdgeBanners,
     t \in TablesOf(RowsOf(L, Len(L)), 0) \cup TablesOf(RowsOf(L, Len(L)), 1)}

Uploads == UNION {UploadsOf(L) : L \in Layouts}

-----------------------------------------------------------------------------
(* Lines 177-190: the header locator *)

MaxScanRow == 30
Marker == "ST: Participant PID"

\* the cells ws_src.iter_rows yields for row r: empty past the last row
RowCells(sh, r) == IF r <= Len(sh) THEN sh[r] ELSE <<>>

\* lines 182-185: some cell of the row is text containing the marker
RowHasMarker(cells) ==
  \E i \in 1..Len(cells) : cells[i].t = "str" /\ Contains(cells[i].s, Marker)

RECURSIVE ScanAll(_, _, _)
\* the scan were it to run to the end of the sheet, ignoring max_row
ScanAll(sh, r, last) ==
  IF r > Len(sh) THEN 0
  ELSE IF RowHasMarker(RowCells(sh, r)) THEN r
  ELSE ScanAll(sh, r + 1, last)

RECURSIVE ScanFrom(_, _, _)
\* the loop of lines 181-187 from row r on, last being max_row
ScanFrom(sh, r, last) ==
  IF r > last THEN 0
  ELSE IF RowHasMarker(RowCells(sh, r)) THEN r
  ELSE ScanFrom(sh, r + 1, last)

NoHeaderMsg == "Couldn't find 'ST: Participant PID' in the file."
NoPidMsg == "The file is missing 'Participant PID'."

LocateHeader ==
  /\ pc = "uploaded"
  /\ header_row' = ScanFrom(sheet, 1, MaxScanRow)
  /\ IF header_row' = 0
     THEN pc' = "stopped" /\ err' = NoHeaderMsg
     ELSE pc' = "located" /\ err' = err
  /\ UNCHANGED <<sheet, columns, df, headers, ws_head, ws, immun_idx, tb_idx, lead_idx,
                 scn_comb_idx, base_max_col, final_output, label, orig, prev, passes>>

-----------------------------------------------------------------------------
(* Lines 191-198: read the table below the header row, normalize its labels *)

Prefix == "ST: "

\* line 193, one label
NormalizeLabel(c) == IF c.t = "str" THEN Str(Replace(c.s, Prefix)) ELSE c

PidLabel == Str("Participant PID")

ReadTable ==
  /\ pc = "located"
  /\ columns' = [i \in 1..Len(sheet[header_row]) |->
                   NormalizeLabel(sheet[header_row][i])]
  /\ df' = SubSeq(sheet, header_row + 1, Len(sheet))
  /\ IF PidLabel \notin Range(columns')
     THEN pc' = "stopped" /\ err' = NoPidMsg
     ELSE pc' = "loaded" /\ err' = err
  /\ UNCHANGED <<sheet, header_row, headers, ws_head, ws, immun_idx, tb_idx, lead_idx,
                 scn_comb_idx, base_max_col, final_output, label, orig, prev, passes>>

-----------------------------------------------------------------------------
(* Lines 199-203: dropna, groupby, agg(most_recent) *)

\* the characters of the texts modelled, in code point order
CodeOrder ==
  " '()-/0123456789:ABCDEFGHIJKLMNOPQRSTUVWXYZ_abcdefghijklmnopqrstuvwxyz"

CharCode(c) == CHOOSE i \in 1..Len(CodeOrder) : CharAt(CodeOrder, i) = c

RECURSIVE StrLess(_, _)
\* a < b on str
StrLess(a, b) ==
  IF b = "" THEN FALSE
  ELSE IF a = "" THEN TRUE
  ELSE IF CharAt(a, 1) = CharAt(b, 1) THEN StrLess(Tail(a), Tail(b))
  ELSE CharCode(CharAt(a, 1)) < CharCode(CharAt(b, 1))

\* the order groupby sorts its keys in: numbers by value, texts by code point
KeyLess(a, b) ==
  IF a.t = "str" /\ b.t = "str" THEN StrLess(a.s, b.s)
  ELSE IF a.t = "num" /\ b.t = "num" THEN a.n < b.n
  ELSE a.t = "num" /\ b.t = "str"

RECURSIVE SortKeys(_)
SortKeys(S) ==
  IF S = {} THEN <<>>
  ELSE LET m == CHOOSE x \in S : \A y \in S \ {x} : KeyLess(x, y)
       IN <<m>> \o SortKeys(S \ {m})

\* df.dropna(subset=[key column])
dropna(rows, k) == SelectSeq(rows, LAMBDA r : ~isna(r[k]))

\* groupby were it to open a group per row instead of one per distinct key
GroupKeysPerRow(rows, k) == [i \in 1..Len(rows) |-> rows[i][k]]

\* the group keys of groupby(key column): each distinct key once, sorted
GroupKeys(rows, k) == SortKeys({rows[i][k] : i \in 1..Len(rows)})

\* the rows of one group, in source order
GroupRows(rows, k, key) == SelectSeq(rows, LAMBDA r : r[k] = key)

\* column j of a sequence of rows
Column(rows, j) == [i \in 1..Len(rows) |-> rows[i][j]]

\* the positions of cols other than position k, in order
OtherCols(cols, k) ==
  SelectSeq([j \in 1..Len(cols) |-> j], LAMBDA j : j # k)

\* the frame lines 199-203 build from the frame (cols, rows): the key column
\* first (as_index=False), then every other column aggregated
Consolidated(cols, rows) ==
  LET k     == IndexOf(cols, PidLabel)
      kept  == dropna(rows, k)
      keys  == GroupKeys(kept, k)
      other == OtherCols(cols, k)
  IN [cols |-> <<cols[k]>> \o [j \in 1..Len(other) |-> cols[other[j]]],
      rows |-> [g \in 1..Len(keys) |->
                  <<keys[g]>> \o
                  [j \in 1..Len(other) |->
                     most_recent(Column(GroupRows(kept, k, keys[g]), other[j]))]]]

Consolidate ==
  /\ pc = "loaded"
  /\ columns' = Consolidated(columns, df).cols
  /\ df' = Consolidated(columns, df).rows
  /\ pc' = "consolidated"
  /\ UNCHANGED <<sheet, header_row, err, headers, ws_head, ws, immun_idx,
                 tb_idx, lead_idx, scn_comb_idx, base_max_col, final_output,
                 label, orig, prev, passes>>

-----------------------------------------------------------------------------
(* Lines 204-216: collapse the immunization, TB and lead columns *)

\* lines 209-210 for one category on the frame T = [cols, rows]: the column
\* `name` is assigned (in place when it exists, appended otherwise), then
\* every column of col_names still in the frame is dropped. A frame with no
\* rows is taken to gain the column like any other.
CollapseInto(T, col_names, name) ==
  IF col_names = <<>> THEN T
  ELSE
    LET n      == Len(T.rows)
        newval == [i \in 1..n |-> collapse_row_values(T.cols, T.rows[i], col_names)]
        at     == IndexOf(T.cols, Str(name))
        cols1  == IF at # 0 THEN T.cols ELSE Append(T.cols, Str(name))
        rows1  == [i \in 1..n |->
                     IF at # 0 THEN [T.rows[i] EXCEPT ![at] = newval[i]]
                     ELSE Append(T.rows[i], newval[i])]
        keep   == SelectSeq([j \in 1..Len(cols1) |-> j],
                            LAMBDA j : cols1[j] \notin Range(col_names))
    IN [cols |-> [j \in 1..Len(keep) |-> cols1[keep[j]]],
        rows |-> [i \in 1..n |-> [j \in 1..Len(keep) |-> rows1[i][keep[j]]]]]

ImmunKeys == {"immun"}
TbKeys == {"tb", "tuberc", "ppd"}
LeadKeys == {"lead", "pb"}

\* lines 205-216: the three categories in turn, their columns found among the
\* labels the frame had before the first of them was collapsed (all_cols)
CollapseSpecial ==
  /\ pc = "consolidated"
  /\ \E T1 \in {CollapseInto([cols |-> columns, rows |-> df],
                              find_cols(columns, ImmunKeys), "Immunizations")} :
     \E T2 \in {CollapseInto(T1, find_cols(columns, TbKeys), "TB Test")} :
     \E T3 \in {CollapseInto(T2, find_cols(columns, LeadKeys), "Lead Test")} :
       /\ columns' = T3.cols
       /\ df' = T3.rows
  /\ pc' = "collapsed"
  /\ UNCHANGED <<sheet, header_row, err, headers, ws_head, ws, immun_idx,
                 tb_idx, lead_idx, scn_comb_idx, base_max_col, final_output,
                 label, orig, prev, passes>>

-----------------------------------------------------------------------------
(* Lines 217-272: write df to the sheet, read the headers, find the columns *)

\* hdr(c) on the header cell v
hdr(v) == IF v.t = "str" THEN Str(Strip(v.s)) ELSE v

find_idx_exact(hs, name) == IndexOf(hs, Str(name))

RECURSIVE FindSubFrom(_, _, _)
FindSubFrom(hs, sub, i) ==
  IF i > Len(hs) THEN 0
  ELSE IF hs[i].t = "str" /\ Contains(Lower(hs[i].s), sub) THEN i
  ELSE FindSubFrom(hs, sub, i + 1)

find_idx_sub(hs, sub) == FindSubFrom(hs, sub, 1)

\* a or b on indexes, 0 standing for None
Or(a, b) == IF a # 0 THEN a ELSE b

WriteWorkbook ==
  /\ pc = "collapsed"
  /\ ws_head' = columns
  /\ ws' = [i \in 1..Len(df) |->
              [j \in 1..Len(columns) |-> [v |-> df[i][j], red |-> FALSE]]]
  /\ base_max_col' = Len(columns)
  /\ headers' = [c \in 1..Len(columns) |-> hdr(columns[c])]
  /\ immun_idx' = Or(find_idx_exact(headers', "Immunizations"),
                     find_idx_sub(headers', "immun"))
  /\ tb_idx' = Or(find_idx_exact(headers', "TB Test"), find_idx_sub(headers', "tb"))
  /\ lead_idx' = Or(find_idx_exact(headers', "Lead Test"),
                    find_idx_sub(headers', "lead"))
  /\ pc' = "written"
  /\ UNCHANGED <<sheet, header_row, err, columns, df, scn_comb_idx,
                 final_output, label, orig, prev, passes>>

-----------------------------------------------------------------------------
(* Lines 274-296: merge the two Special Care Needs columns *)

ScnEnName == "Child's Special Care Needs English"
ScnEsName == "Child's Special Care Needs Spanish"
ScnName == "Child's Special Care Needs"

scn_en_idx ==
  Or(find_idx_exact(headers, ScnEnName), find_idx_sub(headers, "special care needs english"))
scn_es_idx ==
  Or(find_idx_exact(headers, ScnEsName), find_idx_sub(headers, "special care needs spanish"))

\* the merge were it `dt_en or dt_es` alone, without the max of line 287
MergeValueFirst(val_en, val_es) ==
  LET dt_en == coerce_to_dt(val_en)
      dt_es == coerce_to_dt(val_es)
  IN IF IsDt(dt_en) THEN dt_en ELSE IF IsDt(dt_es) THEN dt_es ELSE None

\* lines 284-290: the value written for one row, from the two cell values
MergeValue(val_en, val_es) ==
  LET dt_en == coerce_to_dt(val_en)
      dt_es == coerce_to_dt(val_es)
  IN IF IsDt(dt_en) /\ IsDt(dt_es)
     THEN (IF dt_en.d >= dt_es.d THEN dt_en ELSE dt_es)
     ELSE IF IsDt(dt_en) THEN dt_en
     ELSE IF IsDt(dt_es) THEN dt_es
     ELSE None

\* lines 281-290 on one data row
MergeRow(row, en, es, comb) ==
  LET val_en == IF en # 0 THEN row[en].v ELSE None
      val_es == IF es # 0 THEN row[es].v ELSE None
  IN [row EXCEPT ![comb].v = MergeValue(val_en, val_es)]

MergeSCN ==
  /\ pc = "written"
  /\ LET en    == scn_en_idx
         es    == scn_es_idx
         comb  == Or(en, es)
         other == IF comb = 0 THEN 0 ELSE IF comb = en THEN es ELSE en
         head1 == IF comb = 0 THEN ws_head
                  ELSE [ws_head EXCEPT ![comb] = Str(ScnName)]
         rows1 == IF comb = 0 THEN ws
                  ELSE [r \in 1..Len(ws) |-> MergeRow(ws[r], en, es, comb)]
     IN IF other # 0
        THEN /\ ws_head' = RemoveAt(head1, other)
             /\ ws' = [r \in 1..Len(ws) |-> RemoveAt(rows1[r], other)]
             /\ base_max_col' = base_max_col - 1
             /\ scn_comb_idx' = IF other < comb THEN comb - 1 ELSE comb
             /\ headers' = [c \in 1..base_max_col' |-> hdr(ws_head'[c])]
        ELSE /\ ws_head' = head1
             /\ ws' = rows1
             /\ scn_comb_idx' = comb
             /\ UNCHANGED <<base_max_col, headers>>
  /\ pc' = "merged"
  /\ UNCHANGED <<sheet, header_row, err, columns, df, immun_idx, tb_idx,
                 lead_idx, final_output, label, orig, prev, passes>>

-----------------------------------------------------------------------------
(* Lines 300-353: clear "filtered total" cells, classify every data cell *)

XCell == [v |-> Str("X"), red |-> TRUE]

\* lines 302-304 on one cell value
ClearTotal(v) ==
  IF v.t = "str" /\ Contains(Lower(v.s), "filtered total") THEN None ELSE v

\* line 311
BlankVals == {None, Str(""), Str("nan"), Str("NaT")}

\* lines 317-322, 324-329, 341-346: a special column keeps its date
ClassifySpecial(cell, dt) ==
  IF IsDt(dt) THEN [v |-> dt, red |-> cell.red \/ dt.d < field_cutoff] ELSE cell

\* lines 331-339
ClassifyScn(cell, dt) ==
  IF IsDt(dt) THEN [v |-> dt, red |-> cell.red \/ dt.d < field_cutoff] ELSE XCell

\* the general branch were its comparison `dt <= general_cutoff`
ClassifyGeneralInclusive(cell, dt) ==
  IF IsDt(dt)
  THEN (IF dt.d <= general_cutoff THEN XCell ELSE [v |-> dt, red |-> cell.red])
  ELSE cell

\* lines 347-353
ClassifyGeneral(cell, dt) ==
  IF IsDt(dt)
  THEN (IF dt.d < general_cutoff THEN XCell ELSE [v |-> dt, red |-> cell.red])
  ELSE cell

\* the body of the loop of lines 307-353 for the cell of column c
ClassifyCell(cell, c) ==
  IF cell.v \in BlankVals THEN XCell
  ELSE LET dt == coerce_to_dt(cell.v)
       IN IF immun_idx # 0 /\ c = immun_idx THEN ClassifySpecial(cell, dt)
          ELSE IF tb_idx # 0 /\ c = tb_idx THEN ClassifySpecial(cell, dt)
          ELSE IF scn_comb_idx # 0 /\ c = scn_comb_idx THEN ClassifyScn(cell, dt)
          ELSE IF lead_idx # 0 /\ c = lead_idx THEN ClassifySpecial(cell, dt)
          ELSE ClassifyGeneral(cell, dt)

Classify ==
  /\ pc = "merged"
  /\ ws_head' = [c \in 1..Len(ws_head) |->
                   IF c <= base_max_col THEN ClearTotal(ws_head[c]) ELSE ws_head[c]]
  /\ ws' = [r \in 1..Len(ws) |->
              [c \in 1..Len(ws[r]) |->
                 IF c <= base_max_col
                 THEN ClassifyCell([ws[r][c] EXCEPT !.v = ClearTotal(@)], c)
                 ELSE ws[r][c]]]
  /\ pc' = "classified"
  /\ UNCHANGED <<sheet, header_row, err, columns, df, headers, immun_idx,
                 tb_idx, lead_idx, scn_comb_idx, base_max_col, final_output,
                 label, orig, prev, passes>>

\* lines 355-526: the totals, the summaries, then wb.save; the data cells are
\* saved as classified
SaveWorkbook ==
  /\ pc = "classified"
  /\ final_output' = <<ws_head>> \o ws
  /\ pc' = "done"
  /\ UNCHANGED <<sheet, header_row, err, columns, df, headers, ws_head, ws,
                 immun_idx, tb_idx, lead_idx, scn_comb_idx, base_max_col,
                 label, orig, prev, passes>>

-----------------------------------------------------------------------------
(* One upload, handled from line 177 to line 526 *)

Init ==
  /\ pc = "uploaded"
  /\ sheet \in Uploads
  /\ header_row = 0
  /\ err = ""
  /\ columns = <<>>
  /\ df = <<>>
  /\ headers = <<>>
  /\ ws_head = <<>>
  /\ ws = <<>>
  /\ immun_idx = 0 /\ tb_idx = 0 /\ lead_idx = 0 /\ scn_comb_idx = 0
  /\ base_max_col = 0
  /\ final_output = <<>>
  /\ label = None /\ orig = None /\ prev = None /\ passes = 0

Next ==
  \/ LocateHeader
  \/ ReadTable
  \/ Consolidate
  \/ CollapseSpecial
  \/ WriteWorkbook
  \/ MergeSCN
  \/ Classify
  \/ SaveWorkbook

Spec == Init /\ [][Next]_vars

-----------------------------------------------------------------------------
(* Line 193 alone: the prefix removal applied to a label, and again to its *)
(* own result                                                              *)

\* a label is at most this many pieces long
MaxPieces == 3
\* the removal is applied at most this many times
MaxPasses == 2

Pieces == {"S", "ST: ", "T: ", "TE", "Participant PID"}

RECURSIVE LabelsOf(_)
\* the texts of exactly n pieces
LabelsOf(n) ==
  IF n = 0 THEN {""} ELSE {a \o b : a \in LabelsOf(n - 1), b \in Pieces}

Labels == {Str(x) : x \in UNION {LabelsOf(n) : n \in 0..MaxPieces}} \cup {Num(7)}

InitNorm ==
  /\ pc = "idle"
  /\ sheet = <<>>
  /\ header_row = 0
  /\ err = ""
  /\ columns = <<>>
  /\ df = <<>>
  /\ headers = <<>>
  /\ ws_head = <<>>
  /\ ws = <<>>
  /\ immun_idx = 0 /\ tb_idx = 0 /\ lead_idx = 0 /\ scn_comb_idx = 0
  /\ base_max_col = 0
  /\ final_output = <<>>
  /\ label \in Labels
  /\ orig = label
  /\ prev = label
  /\ passes = 0

NormalizeColumn ==
  /\ pc = "idle"
  /\ passes < MaxPasses
  /\ label' = NormalizeLabel(label)
  /\ prev' = label
  /\ passes' = passes + 1
  /\ UNCHANGED <<orig, pipeVars>>

NextNorm == NormalizeColumn

SpecNorm == InitNorm /\ [][NextNorm]_vars

-----------------------------------------------------------------------------
(* The properties checked *)

\* the table as read below the located header row, before consolidation
InputCols ==
  [i \in 1..Len(sheet[header_row]) |-> NormalizeLabel(sheet[header_row][i])]
InputRows == SubSeq(sheet, header_row + 1, Len(sheet))
InputPidCol == IndexOf(InputCols, PidLabel)

\* the positions of the input rows whose Participant PID is key
RowsWithPid(key) ==
  {i \in 1..Len(InputRows) : InputRows[i][InputPidCol] = key}

\* None, or text that is empty once trimmed
IsBlank(v) == v = None \/ (v.t = "str" /\ Strip(v.s) = "")

OutPidCol == IndexOf(columns, PidLabel)

SetMax(S) == CHOOSE m \in S : \A x \in S : x <= m
SetMin(S) == CHOOSE m \in S : \A x \in S : m <= x

\* C1: after consolidation the table has exactly one row per distinct
\* non-null Participant PID of the input: none is lost, none appears twice.
C1_OneRowPerPid ==
  pc = "consolidated" =>
    LET pids == {InputRows[i][InputPidCol] : i \in 1..Len(InputRows)} \ {None}
    IN /\ Len(df) = Cardinality(pids)
       /\ {df[g][OutPidCol] : g \in 1..Len(df)} = pids

C1_Witness ==
  /\ pc = "consolidated"
  /\ Len(df) = 1
  /\ Cardinality(RowsWithPid(df[1][OutPidCol])) = 2

\* C2: when some value of a PID's group coerces to a date in a column, the
\* consolidated value of that column is the latest coerced date of the group,
\* whatever the row order and whatever text the column also holds.
C2_LatestDateWins ==
  pc = "consolidated" =>
    \A g \in 1..Len(df) : \A c \in 1..Len(InputCols) :
      LET ds == {coerce_to_dt(InputRows[i][c]).d :
                   i \in {j \in RowsWithPid(df[g][OutPidCol]) :
                            IsDt(coerce_to_dt(InputRows[j][c]))}}
      IN (c # InputPidCol /\ ds # {}) =>
           df[g][IndexOf(columns, InputCols[c])] = Dt(SetMax(ds))

\* the later date stands in the earlier row
C2_Witness ==
  /\ pc = "consolidated"
  /\ \E g \in 1..Len(df) : \E c \in 1..Len(InputCols) :
       \E i, j \in RowsWithPid(df[g][OutPidCol]) :
         /\ c # InputPidCol /\ i < j
         /\ IsDt(coerce_to_dt(InputRows[i][c]))
         /\ IsDt(coerce_to_dt(InputRows[j][c]))
         /\ coerce_to_dt(InputRows[i][c]).d > coerce_to_dt(InputRows[j][c]).d

SpecialNames == {Str("Immunizations"), Str("TB Test"), Str("Lead Test")}
ScnNames == {Str(ScnName), Str(ScnEnName), Str(ScnEsName)}

\* C3: every special-category cell (Immunizations, TB Test, Lead Test) whose
\* value coerces to a date keeps that date in the output, red exactly when it
\* is before the special cutoff, and is never replaced by "X".
C3_SpecialDateKept ==
  pc = "classified" =>
    \A r \in 1..Len(ws) : \A h \in SpecialNames \cap Range(ws_head) :
      LET dt == coerce_to_dt(df[r][IndexOf(columns, h)])
          o  == ws[r][IndexOf(ws_head, h)]
      IN IsDt(dt) => o.v = dt /\ o.red = (dt.d < datetime(2025, 8, 1))

\* C4: a cell of a general column whose consolidated value coerces to a date
\* d shows "X" when d is before 2025-05-11, and d itself, unflagged, when d
\* is on or after it.
C4_GeneralCutoff ==
  pc = "classified" =>
    \A r \in 1..Len(ws) :
      \A h \in (Range(ws_head) \cap Range(columns)) \ (SpecialNames \cup ScnNames) :
        LET dt == coerce_to_dt(df[r][IndexOf(columns, h)])
            o  == ws[r][IndexOf(ws_head, h)]
        IN IsDt(dt) =>
             IF dt.d < datetime(2025, 5, 11) THEN o.v = Str("X")
             ELSE o.v = dt /\ ~o.red

\* a general cell dated exactly on the cutoff, kept
C4_Witness ==
  /\ pc = "classified"
  /\ \E r \in 1..Len(ws) : \E c \in 1..Len(ws[r]) :
       /\ ws_head[c] \notin SpecialNames \cup ScnNames
       /\ ws[r][c] = [v |-> Dt(datetime(2025, 5, 11)), red |-> FALSE]

\* C5: a raw row whose Participant PID is null or blank never contributes to
\* the output: no consolidated record carries a blank PID.
C5_BlankPidExcluded ==
  pc = "consolidated" => \A g \in 1..Len(df) : ~IsBlank(df[g][OutPidCol])

\* C6: removing the prefix from a label that already went through the
\* removal changes nothing, and a label that does not start with "ST: " is
\* left as it was.
C6_NormIdempotent ==
  /\ passes >= 2 => label = prev
  /\ (passes >= 1 /\ orig.t = "str" /\ ~StartsWith(orig.s, Prefix)) => label = orig

\* both Special Care Needs columns reached the sheet
BothScn == {Str(ScnEnName), Str(ScnEsName)} \subseteq Range(columns)

ScnEnIn(r) == df[r][IndexOf(columns, Str(ScnEnName))]
ScnEsIn(r) == df[r][IndexOf(columns, Str(ScnEsName))]
ScnOut(r) == ws[r][IndexOf(ws_head, Str(ScnName))].v

\* what C7 says of the merged cell when at least one of the two values
\* parses as a date
ScnDateRule(r) ==
  LET en == coerce_to_dt(ScnEnIn(r))
      es == coerce_to_dt(ScnEsIn(r))
  IN /\ (IsDt(en) /\ IsDt(es)) => ScnOut(r) = Dt(SetMax({en.d, es.d}))
     /\ (IsDt(en) /\ ~IsDt(es)) => ScnOut(r) = en
     /\ (~IsDt(en) /\ IsDt(es)) => ScnOut(r) = es

NeitherScnDate(r) ==
  ~IsDt(coerce_to_dt(ScnEnIn(r))) /\ ~IsDt(coerce_to_dt(ScnEsIn(r)))

\* the two columns became one: the merged header is there once, the English
\* and Spanish headers are gone, the sheet is one column narrower
ScnColumnRemoved ==
  /\ Str(ScnEnName) \notin Range(ws_head)
  /\ Str(ScnEsName) \notin Range(ws_head)
  /\ Len(ws_head) = Len(columns) - 1
  /\ \A r \in 1..Len(ws) : Len(ws[r]) = Len(columns) - 1

\* C7 as stated: the merged cell holds the later date, or the one date, or,
\* when neither value parses as a date, whichever of the two is non-empty
\* (text is kept); the other column is removed.
C7_MergeKeepsText ==
  (pc = "merged" /\ BothScn) =>
    /\ ScnColumnRemoved
    /\ \A r \in 1..Len(ws) :
         /\ ScnDateRule(r)
         /\ NeitherScnDate(r) =>
              LET full == {ScnEnIn(r), ScnEsIn(r)} \ {None}
              IN IF full = {} THEN ScnOut(r) = None ELSE ScnOut(r) \in full

\* C7 as the code has it: the merged cell holds the later date, or the one
\* date, and is left empty when neither value parses as a date (text in
\* either column is dropped); the other column is removed.
C7_MergeDatesOnly ==
  (pc = "merged" /\ BothScn) =>
    /\ ScnColumnRemoved
    /\ \A r \in 1..Len(ws) :
         /\ ScnDateRule(r)
         /\ NeitherScnDate(r) => ScnOut(r) = None

\* a row whose English value is text and whose Spanish value is no date
C7_Witness ==
  /\ pc = "merged" /\ BothScn
  /\ \E r \in 1..Len(ws) :
       /\ NeitherScnDate(r)
       /\ ScnEnIn(r).t = "str"
       /\ ScnOut(r) = None

\* C8: when no value of a PID's group coerces to a date in a column but some
\* value is non-empty text once trimmed, the consolidated value is the first
\* such text in source row order; when every value is null it is null.
C8_FirstTextWins ==
  pc = "consolidated" =>
    \A g \in 1..Len(df) : \A c \in 1..Len(InputCols) :
      LET rows  == RowsWithPid(df[g][OutPidCol])
          texts == {i \in rows : InputRows[i][c].t = "str"
                                 /\ Strip(InputRows[i][c].s) # ""}
          out   == df[g][IndexOf(columns, InputCols[c])]
      IN (c # InputPidCol /\ \A i \in rows : ~IsDt(coerce_to_dt(InputRows[i][c]))) =>
           /\ texts # {} => out = Str(Strip(InputRows[SetMin(texts)][c].s))
           /\ (\A i \in rows : InputRows[i][c] = None) => out = None

\* two different texts in one group
C8_Witness ==
  /\ pc = "consolidated"
  /\ \E g \in 1..Len(df) : \E c \in 1..Len(InputCols) :
       \E i, j \in RowsWithPid(df[g][OutPidCol]) :
         /\ c # InputPidCol /\ i < j
         /\ InputRows[i][c] = Str("Pending")
         /\ InputRows[j][c] = Str(" Approved")
         /\ df[g][IndexOf(columns, InputCols[c])] = Str("Pending")

\* C9: every data cell whose consolidated value is missing or blank shows
\* "X", in every column, and no data cell of the output is left null.
C9_BlankBecomesX ==
  pc = "classified" =>
    \A r \in 1..Len(ws) :
      /\ \A c \in 1..Len(ws[r]) : ws[r][c].v # None
      /\ \A h \in Range(ws_head) \cap Range(columns) :
           IsBlank(df[r][IndexOf(columns, h)]) =>
             ws[r][IndexOf(ws_head, h)].v = Str("X")

\* the rows among the first 30 with a text cell containing the marker
MarkerRows ==
  {r \in 1..MaxScanRow :
     r <= Len(sheet) /\ \E i \in 1..Len(sheet[r]) :
                          sheet[r][i].t = "str" /\ Contains(sheet[r][i].s, Marker)}

\* C10: the header row is the first of rows 1..30 with a text cell containing
\* "ST: Participant PID"; when there is none, also when the marker stands in
\* row 31 only, the run stops with the error message and nothing is
\* consolidated, classified or saved.
C10_HeaderLocator ==
  pc # "uploaded" =>
    IF MarkerRows = {}
    THEN /\ header_row = 0
         /\ pc = "stopped"
         /\ err = NoHeaderMsg
         /\ columns = <<>> /\ df = <<>> /\ ws = <<>> /\ final_output = <<>>
    ELSE header_row = SetMin(MarkerRows)

\* the marker stands in row 31 only
C10_Witness ==
  /\ pc = "stopped"
  /\ header_row = 0
  /\ Len(sheet) >= MaxScanRow + 1
  /\ RowHasMarker(sheet[MaxScanRow + 1])

\* C11: the Participant PID cell of every output row equals the PID of the
\* consolidated record of that row, text or number: classification never
\* replaces it with "X" and never turns it into a date.
C11_PidKept ==
  pc = "classified" =>
    \A r \in 1..Len(ws) :
      ws[r][IndexOf(ws_head, PidLabel)].v = df[r][OutPidCol]

\* the special categories in the order lines 205-207 look for them
SpecialCategories ==
  <<[keys |-> ImmunKeys, name |-> "Immunizations"],
    [keys |-> TbKeys, name |-> "TB Test"],
    [keys |-> LeadKeys, name |-> "Lead Test"]>>

\* the columns matching category k that match no category before it
OwnedCols(cols, k) ==
  SelectSeq(find_cols(cols, SpecialCategories[k].keys),
            LAMBDA c : \A j \in 1..(k - 1) :
                         c \notin Range(find_cols(cols, SpecialCategories[j].keys)))

\* C12: whenever a column of the consolidated table matches the keyword set
\* of a special category, the table after the collapse (of one record or
\* more) has the combined column of that category, holding for every record
\* the collapsed value of the matching columns, also when a matching column
\* already bears the combined name; a column matching two keyword sets
\* counts for the first category only, in the order Immunizations, TB Test,
\* Lead Test.
C12_CombinedColumn ==
  [][(pc = "consolidated" /\ pc' = "collapsed" /\ df # <<>>) =>
       \A k \in 1..Len(SpecialCategories) :
         find_cols(columns, SpecialCategories[k].keys) # <<>> =>
           /\ Str(SpecialCategories[k].name) \in Range(columns')
           /\ Len(df') = Len(df)
           /\ \A g \in 1..Len(df) :
                df'[g][IndexOf(columns', Str(SpecialCategories[k].name))] =
                  collapse_row_values(columns, df[g], OwnedCols(columns, k))]_vars

====
